---- MODULE Spec2Model ----
(***************************************************************************)
(* The chat-authorization bridge of the Hackathon-Todo backend: the global *)
(* JWT middleware (src/main.py), the chat and conversation routes          *)
(* (src/routes/chat.py), the MCP task tools (src/mcp/server.py) and the    *)
(* conversation store.  The Python fragments the repository ships are the  *)
(* ones quoted in its Chat API Security Documentation; everything between  *)
(* those fragments follows the orchestrator state machine of spec.md 4.4.  *)
(***************************************************************************)
EXTENDS Integers, Sequences, FiniteSets, TLC

(* ------------------------------ bounds -------------------------------- *)
MaxTaskId == 2
MaxConvId == 2
MaxMsgId == 4
MaxCalls == 1
MaxTurns == 2
MaxOps == 2
MaxMockUsers == 5
MaxNotes == 3
MaxShown == 8
MaxInput == 2

(* ------------------------------ domains ------------------------------- *)
Reqs == {"r1"}
Users == {"u1", "u2"}
NoUser == "nouser"
NoConv == 0
Endpoints == {"chat", "get_conversation", "delete_conversation", "other"}
ToolNames == {"add_task", "list_tasks", "complete_task", "delete_task", "update_task"}

\* error kinds; the strings are the detail/error texts of the source where it has one
Unauthenticated == "Missing or invalid Authorization header"
BadCredentials == "Could not validate credentials"
Forbidden == "User ID in path does not match authenticated user"
OwnershipMismatch == "Task does not belong to the specified user"
ConversationOwnershipMismatch == "Conversation does not belong to the specified user"
NotFound == "not found"
UserNotFound == "User not found"
UpstreamAgentError == "agent call failed"
NoError == ""

VARIABLES requests, tasks, nextTaskId, conversations, nextConvId, messages, nextMsgId, turns, ui

vars == <<requests, tasks, nextTaskId, conversations, nextConvId, messages, nextMsgId, turns, ui>>

\* logical clock of the conversation store: it ticks with every row inserted there
Now == nextConvId + nextMsgId

(* ----------------------------- Token Verifier ------------------------- *)
\* Authorization header values a client can send
NoHeader == [scheme |-> "absent", sig |-> "none", exp |-> "none", sub |-> NoUser]

Headers ==
    {NoHeader}
    \cup {[scheme |-> "Basic ", sig |-> "valid", exp |-> "fresh", sub |-> "u1"]}
    \cup [scheme : {"Bearer "}, sig : {"valid"}, exp : {"fresh"}, sub : Users \cup {NoUser}]
    \cup {[scheme |-> "Bearer ", sig |-> "invalid", exp |-> "fresh", sub |-> "u1"],
          [scheme |-> "Bearer ", sig |-> "valid", exp |-> "expired", sub |-> "u1"]}

JwtDecodes_IgnoresExpiry(h) == h.sig = "valid"

\* jwt.decode(token, BETTER_AUTH_SECRET, algorithms=["HS256"]) succeeds
JwtDecodes(h) == h.sig = "valid" /\ h.exp = "fresh"

\* verify_token: the TokenData of a token, or the 401 it raises
verify_token(h) ==
    IF ~JwtDecodes(h) THEN [ok |-> FALSE, user_id |-> NoUser, detail |-> BadCredentials]
    ELSE IF h.sub = NoUser THEN [ok |-> FALSE, user_id |-> NoUser, detail |-> BadCredentials]
    ELSE [ok |-> TRUE, user_id |-> h.sub, detail |-> NoError]

IsApiPath(endpoint) == endpoint # "other"

(* ------------------------------ Tool Executor ------------------------- *)
\* the task table after seeding, cut to the first pending task of the seed script
SeedTasks ==
    [t \in {1} |-> [user_id |-> "u1", title |-> "Create task management API",
                    status |-> "pending", priority |-> "medium", completed_at |-> 0]]

Ok(data) == [success |-> TRUE, error |-> NoError, data |-> data]
Fail(err) == [success |-> FALSE, error |-> err, data |-> {}]

DefaultPriority_Always(p) == "medium"

DefaultPriority(p) == IF p = "" THEN "medium" ELSE p

handle_add_task(arguments, store, newId) ==
    IF arguments.user_id \notin Users
    THEN [store |-> store, result |-> Fail(UserNotFound)]
    ELSE [store |-> [t \in DOMAIN store \cup {newId} |->
                        IF t = newId
                        THEN [user_id |-> arguments.user_id,
                              title |-> arguments.title,
                              status |-> "pending",
                              priority |-> DefaultPriority(arguments.priority),
                              completed_at |-> 0]
                        ELSE store[t]],
          result |-> Ok({newId})]

handle_list_tasks_NoUserFilter(arguments, store) ==
    [store |-> store,
     result |-> Ok({t \in DOMAIN store :
                      arguments.status = "" \/ store[t].status = arguments.status})]

handle_list_tasks(arguments, store) ==
    [store |-> store,
     result |-> Ok({t \in DOMAIN store :
                      /\ store[t].user_id = arguments.user_id
                      /\ (arguments.status = "" \/ store[t].status = arguments.status)})]

handle_complete_task_NoStamp(arguments, store, now) ==
    IF arguments.task_id \notin DOMAIN store
    THEN [store |-> store, result |-> Fail(NotFound)]
    ELSE IF store[arguments.task_id].user_id # arguments.user_id
    THEN [store |-> store, result |-> Fail(OwnershipMismatch)]
    ELSE [store |-> [store EXCEPT ![arguments.task_id].status = "completed"],
          result |-> Ok({arguments.task_id})]

handle_complete_task_Conflated(arguments, store, now) ==
    IF \/ arguments.task_id \notin DOMAIN store
       \/ store[arguments.task_id].user_id # arguments.user_id
    THEN [store |-> store, result |-> Fail(NotFound)]
    ELSE [store |-> [store EXCEPT ![arguments.task_id].status = "completed",
                                  ![arguments.task_id].completed_at = now],
          result |-> Ok({arguments.task_id})]

handle_complete_task_NoOwnerCheck(arguments, store, now) ==
    IF arguments.task_id \notin DOMAIN store
    THEN [store |-> store, result |-> Fail(NotFound)]
    ELSE [store |-> [store EXCEPT ![arguments.task_id].status = "completed",
                                  ![arguments.task_id].completed_at = now],
          result |-> Ok({arguments.task_id})]

\* complete_task: the row is loaded by id and its owner compared with user_id; the
\* branch for an id with no row is the NotFound of the error taxonomy
handle_complete_task(arguments, store, now) ==
    IF arguments.task_id \notin DOMAIN store
    THEN [store |-> store, result |-> Fail(NotFound)]
    ELSE IF store[arguments.task_id].user_id # arguments.user_id
    THEN [store |-> store, result |-> Fail(OwnershipMismatch)]
    ELSE [store |-> [store EXCEPT ![arguments.task_id].status = "completed",
                                  ![arguments.task_id].completed_at = now],
          result |-> Ok({arguments.task_id})]

handle_delete_task(arguments, store) ==
    IF arguments.task_id \notin DOMAIN store
    THEN [store |-> store, result |-> Fail(NotFound)]
    ELSE IF store[arguments.task_id].user_id # arguments.user_id
    THEN [store |-> store, result |-> Fail(OwnershipMismatch)]
    ELSE [store |-> [t \in DOMAIN store \ {arguments.task_id} |-> store[t]],
          result |-> Ok({arguments.task_id})]

handle_update_task_WritesAllFields(arguments, store) ==
    IF arguments.task_id \notin DOMAIN store
    THEN [store |-> store, result |-> Fail(NotFound)]
    ELSE [store |-> [store EXCEPT
                        ![arguments.task_id].user_id = arguments.user_id,
                        ![arguments.task_id].priority =
                            IF arguments.priority = "" THEN @ ELSE arguments.priority,
                        ![arguments.task_id].status =
                            IF arguments.status = "" THEN @ ELSE arguments.status],
          result |-> Ok({arguments.task_id})]

handle_update_task(arguments, store) ==
    IF arguments.task_id \notin DOMAIN store
    THEN [store |-> store, result |-> Fail(NotFound)]
    ELSE IF store[arguments.task_id].user_id # arguments.user_id
    THEN [store |-> store, result |-> Fail(OwnershipMismatch)]
    ELSE [store |-> [store EXCEPT
                        ![arguments.task_id].priority =
                            IF arguments.priority = "" THEN @ ELSE arguments.priority,
                        ![arguments.task_id].status =
                            IF arguments.status = "" THEN @ ELSE arguments.status],
          result |-> Ok({arguments.task_id})]

\* the fixed dispatch table from tool name to handler
call_tool(name, arguments, store, newId, now) ==
    CASE name = "add_task" -> handle_add_task(arguments, store, newId)
      [] name = "list_tasks" -> handle_list_tasks(arguments, store)
      [] name = "complete_task" -> handle_complete_task(arguments, store, now)
      [] name = "delete_task" -> handle_delete_task(arguments, store)
      [] name = "update_task" -> handle_update_task(arguments, store)

\* the tool invocations the agent can ask for; user_id is whatever the model claims
Args(u, t, p, s) ==
    [user_id |-> u, task_id |-> t, title |-> "Buy milk", priority |-> p, status |-> s]

AgentCalls ==
    {[tool_name |-> "add_task", arguments |-> Args(u, 0, p, "")] :
        u \in Users, p \in {"low", ""}}
    \cup {[tool_name |-> "list_tasks", arguments |-> Args(u, 0, "", s)] :
        u \in Users, s \in {"", "completed"}}
    \cup {[tool_name |-> n, arguments |-> Args(u, t, "", "")] :
        n \in {"complete_task", "delete_task"}, u \in Users, t \in 1..MaxTaskId}
    \cup {[tool_name |-> "update_task", arguments |-> Args(u, t, "high", "")] :
        u \in Users, t \in 1..MaxTaskId}
    \cup {[tool_name |-> "update_task", arguments |-> Args(u, t, "", "in-progress")] :
        u \in Users, t \in 1..MaxTaskId}

tool_arguments_AsClaimed(call, auth_user) == call.arguments

\* the arguments a tool actually runs with: the route passes the authenticated user_id
tool_arguments(call, auth_user) == [call.arguments EXCEPT !.user_id = auth_user]

(* --------------------------- Conversation Store ----------------------- *)
NoConversations == [c \in {} |-> 0]
NoMessages == [m \in {} |-> 0]

MessagesOf(msgs, c) == {m \in DOMAIN msgs : msgs[m].conversation_id = c}

UserMessage(c) ==
    [conversation_id |-> c, role |-> "user", tool_calls |-> <<>>]

AssistantMessage_NoToolCalls(c, calls) ==
    [conversation_id |-> c, role |-> "assistant", tool_calls |-> <<>>]

\* the assistant Message carries the turn's tool-call records in its metadata
AssistantMessage(c, calls) ==
    [conversation_id |-> c, role |-> "assistant", tool_calls |-> calls]

delete_cascade_Everything(convs, msgs, c) ==
    [conversations |-> [x \in DOMAIN convs \ {c} |-> convs[x]], messages |-> NoMessages]

delete_cascade_ConversationOnly(convs, msgs, c) ==
    [conversations |-> [x \in DOMAIN convs \ {c} |-> convs[x]], messages |-> msgs]

\* DELETE removes the conversation row and cascades to its messages
delete_cascade(convs, msgs, c) ==
    [conversations |-> [x \in DOMAIN convs \ {c} |-> convs[x]],
     messages |-> [m \in DOMAIN msgs \ MessagesOf(msgs, c) |-> msgs[m]]]

(* ------------------------------- requests ----------------------------- *)
\* the browser side of a server-only run: no page is open
NoClient == [page |-> "none"]

IdleReq ==
    [pc |-> "idle", endpoint |-> "other", header |-> NoHeader, path_user |-> NoUser,
     conv_arg |-> NoConv, token_user |-> NoUser, conversation_id |-> NoConv,
     context_user |-> NoUser, history |-> {}, requested |-> <<>>, tool_calls |-> <<>>,
     status |-> 0, error |-> NoError, message_id |-> 0, body |-> {}]

Init ==
    /\ requests = [r \in Reqs |-> IdleReq]
    /\ tasks = SeedTasks
    /\ nextTaskId = Cardinality(DOMAIN SeedTasks) + 1
    /\ conversations = NoConversations
    /\ nextConvId = 1
    /\ messages = NoMessages
    /\ nextMsgId = 1
    /\ turns = 0
    /\ ui = NoClient

Reply(r, code, err) ==
    [requests EXCEPT ![r].pc = IF code = 200 THEN "responding" ELSE "failed",
                     ![r].status = code, ![r].error = err]

\* a client sends a request
Receive(r) ==
    /\ requests[r].pc = "idle"
    /\ \E e \in Endpoints, h \in Headers, u \in Users \cup {NoUser}, c \in 0..MaxConvId :
          /\ (e \in {"get_conversation", "delete_conversation"}) => c # NoConv
          /\ IsApiPath(e) <=> u # NoUser
          /\ (e = "other") => c = NoConv
          /\ (e = "chat") => /\ nextMsgId + 1 <= MaxMsgId
                             /\ (c = NoConv => nextConvId <= MaxConvId)
                             /\ turns < MaxTurns
          /\ turns' = IF e = "chat" THEN turns + 1 ELSE turns
          /\ requests' = [requests EXCEPT ![r] =
                [IdleReq EXCEPT !.pc = "middleware", !.endpoint = e, !.header = h,
                                !.path_user = u, !.conv_arg = c]]
    /\ UNCHANGED <<tasks, nextTaskId, conversations, nextConvId, messages, nextMsgId, ui>>

\* the global JWT middleware
verify_jwt_middleware(r) ==
    /\ requests[r].pc = "middleware"
    /\ LET h == requests[r].header
           td == verify_token(h)
       IN  requests' =
             IF ~IsApiPath(requests[r].endpoint)
             THEN [requests EXCEPT ![r].pc = "handler"]
             ELSE IF h.scheme # "Bearer "
             THEN Reply(r, 401, Unauthenticated)
             ELSE IF ~td.ok
             THEN Reply(r, 401, td.detail)
             ELSE [requests EXCEPT ![r].pc = "handler", ![r].token_user = td.user_id]
    /\ UNCHANGED <<tasks, nextTaskId, conversations, nextConvId, messages, nextMsgId, turns, ui>>

\* a route outside /api/
other(r) ==
    /\ requests[r].pc = "handler"
    /\ requests[r].endpoint = "other"
    /\ requests' = Reply(r, 200, NoError)
    /\ UNCHANGED <<tasks, nextTaskId, conversations, nextConvId, messages, nextMsgId, turns, ui>>

get_token_data_Global(reqs, r) ==
    LET others == {x \in DOMAIN reqs \ {r} : reqs[x].token_user # NoUser}
    IN  IF others = {} THEN reqs[r].token_user
        ELSE reqs[CHOOSE x \in others : TRUE].token_user

\* get_token_data(req): the TokenData the middleware attached to this request
get_token_data(reqs, r) == reqs[r].token_user

PathMatchesToken_Always(req) == TRUE

\* every route under /api/{user_id}/ starts with the path/token comparison
PathMatchesToken(req) == req.token_user = req.path_user

chat_ResolvesFirst(r) ==
    /\ requests[r].pc = "handler"
    /\ requests[r].endpoint = "chat"
    /\ LET c == requests[r].conv_arg
       IN  requests' =
             IF c \in DOMAIN conversations /\ conversations[c].user_id # requests[r].token_user
             THEN Reply(r, 403, ConversationOwnershipMismatch)
             ELSE IF ~PathMatchesToken(requests[r])
             THEN Reply(r, 403, Forbidden)
             ELSE [requests EXCEPT ![r].pc = "resolving"]
    /\ UNCHANGED <<tasks, nextTaskId, conversations, nextConvId, messages, nextMsgId, turns, ui>>

\* POST /api/{user_id}/chat: Received -> Resolving conversation, or 403
chat(r) ==
    /\ requests[r].pc = "handler"
    /\ requests[r].endpoint = "chat"
    /\ requests' =
         IF ~PathMatchesToken(requests[r])
         THEN Reply(r, 403, Forbidden)
         ELSE [requests EXCEPT ![r].pc = "resolving"]
    /\ UNCHANGED <<tasks, nextTaskId, conversations, nextConvId, messages, nextMsgId, turns, ui>>

ConversationArg_Ignored(req) == NoConv

\* the optional conversation_id of the request body
ConversationArg(req) == req.conv_arg

\* Resolving conversation, no id given: create one owned by the user
create_conversation(r) ==
    /\ requests[r].pc = "resolving"
    /\ ConversationArg(requests[r]) = NoConv
    /\ nextConvId <= MaxConvId
    /\ conversations' = [c \in DOMAIN conversations \cup {nextConvId} |->
                            IF c = nextConvId
                            THEN [user_id |-> get_token_data(requests, r),
                                  updated_at |-> Now + 1]
                            ELSE conversations[c]]
    /\ nextConvId' = nextConvId + 1
    /\ requests' = [requests EXCEPT ![r].pc = "dispatching",
                                    ![r].conversation_id = nextConvId]
    /\ UNCHANGED <<tasks, nextTaskId, messages, nextMsgId, turns, ui>>

OwnsConversation_Anyone(convs, c, u) == TRUE

\* the conversation a user may use: it exists and is theirs
OwnsConversation(convs, c, u) == convs[c].user_id = u

\* Resolving conversation, id given: load it and verify ownership
load_conversation(r) ==
    /\ requests[r].pc = "resolving"
    /\ ConversationArg(requests[r]) # NoConv
    /\ LET c == ConversationArg(requests[r])
       IN  requests' =
             IF c \notin DOMAIN conversations
             THEN Reply(r, 404, NotFound)
             ELSE IF ~OwnsConversation(conversations, c, get_token_data(requests, r))
             THEN Reply(r, 403, ConversationOwnershipMismatch)
             ELSE [requests EXCEPT ![r].pc = "dispatching", ![r].conversation_id = c]
    /\ UNCHANGED <<tasks, nextTaskId, conversations, nextConvId, messages, nextMsgId, turns, ui>>

\* Dispatching: message, prior history and the verified user id go to the agent
run_agent_with_message(r) ==
    /\ requests[r].pc = "dispatching"
    /\ requests' = [requests EXCEPT
                      ![r].pc = "executing",
                      ![r].context_user = get_token_data(requests, r),
                      ![r].history = MessagesOf(messages, requests[r].conversation_id)]
    /\ UNCHANGED <<tasks, nextTaskId, conversations, nextConvId, messages, nextMsgId, turns, ui>>

agent_error_NoTimeout(r) ==
    /\ FALSE
    /\ UNCHANGED vars

\* the agent call fails or times out before any tool call
agent_error(r) ==
    /\ requests[r].pc = "dispatching"
    /\ requests' = Reply(r, 502, UpstreamAgentError)
    /\ UNCHANGED <<tasks, nextTaskId, conversations, nextConvId, messages, nextMsgId, turns, ui>>

\* Executing tools: one tool call the agent requests, run by the Tool Executor
execute_tool(r) ==
    /\ requests[r].pc = "executing"
    /\ Len(requests[r].tool_calls) < MaxCalls
    /\ \E call \in AgentCalls :
          /\ call.tool_name = "add_task" => nextTaskId <= MaxTaskId
          /\ LET arguments == tool_arguments(call, get_token_data(requests, r))
                 out == call_tool(call.tool_name, arguments, tasks, nextTaskId, Now)
             IN  /\ tasks' = out.store
                 /\ nextTaskId' = IF DOMAIN out.store \subseteq DOMAIN tasks
                                  THEN nextTaskId ELSE nextTaskId + 1
                 /\ requests' = [requests EXCEPT
                        ![r].requested = Append(@, call),
                        ![r].tool_calls =
                            Append(@, [tool_name |-> call.tool_name,
                                       arguments |-> arguments,
                                       result |-> out.result])]
    /\ UNCHANGED <<conversations, nextConvId, messages, nextMsgId, turns, ui>>

tasks_after_failure_RolledBack(store, calls) ==
    LET created == UNION {calls[i].result.data :
                            i \in {j \in DOMAIN calls : calls[j].tool_name = "add_task"}}
    IN  [t \in DOMAIN store \ created |-> store[t]]

\* the task table a failing request leaves behind: each tool call committed on its own
tasks_after_failure(store, calls) == store

\* the turn fails or is cancelled after some tool calls have executed
cancel(r) ==
    /\ requests[r].pc = "executing"
    /\ tasks' = tasks_after_failure(tasks, requests[r].tool_calls)
    /\ requests' = Reply(r, 502, UpstreamAgentError)
    /\ UNCHANGED <<nextTaskId, conversations, nextConvId, messages, nextMsgId, turns, ui>>

\* Persisting and Responding: the exchange is appended and the response returned
persist(r) ==
    /\ requests[r].pc = "executing"
    /\ requests[r].conversation_id \in DOMAIN conversations
    /\ LET c == requests[r].conversation_id
           userMsg == UserMessage(c)
           asstMsg == AssistantMessage(c, requests[r].tool_calls)
       IN  /\ messages' = [m \in DOMAIN messages \cup {nextMsgId, nextMsgId + 1} |->
                              IF m = nextMsgId THEN userMsg
                              ELSE IF m = nextMsgId + 1 THEN asstMsg
                              ELSE messages[m]]
           /\ nextMsgId' = nextMsgId + 2
           /\ conversations' = [conversations EXCEPT ![c].updated_at = Now + 2]
           /\ requests' = [requests EXCEPT ![r].pc = "responding", ![r].status = 200,
                                           ![r].message_id = nextMsgId + 1]
    /\ UNCHANGED <<tasks, nextTaskId, nextConvId, turns, ui>>

\* GET /api/{user_id}/conversations/{id}
get_conversation(r) ==
    /\ requests[r].pc = "handler"
    /\ requests[r].endpoint = "get_conversation"
    /\ LET c == requests[r].conv_arg
       IN  requests' =
             IF ~PathMatchesToken(requests[r])
             THEN Reply(r, 403, Forbidden)
             ELSE IF c \notin DOMAIN conversations
             THEN Reply(r, 404, NotFound)
             ELSE IF ~OwnsConversation(conversations, c, get_token_data(requests, r))
             THEN Reply(r, 403, ConversationOwnershipMismatch)
             ELSE [requests EXCEPT ![r].pc = "responding", ![r].status = 200,
                                   ![r].conversation_id = c,
                                   ![r].body = MessagesOf(messages, c)]
    /\ UNCHANGED <<tasks, nextTaskId, conversations, nextConvId, messages, nextMsgId, turns, ui>>

\* DELETE /api/{user_id}/conversations/{id}
delete_conversation(r) ==
    /\ requests[r].pc = "handler"
    /\ requests[r].endpoint = "delete_conversation"
    /\ LET c == requests[r].conv_arg
           allowed == /\ PathMatchesToken(requests[r])
                      /\ c \in DOMAIN conversations
                      /\ OwnsConversation(conversations, c, get_token_data(requests, r))
           after == delete_cascade(conversations, messages, c)
       IN  /\ requests' =
                IF ~PathMatchesToken(requests[r])
                THEN Reply(r, 403, Forbidden)
                ELSE IF c \notin DOMAIN conversations
                THEN Reply(r, 404, NotFound)
                ELSE IF ~OwnsConversation(conversations, c, get_token_data(requests, r))
                THEN Reply(r, 403, ConversationOwnershipMismatch)
                ELSE [requests EXCEPT ![r].pc = "responding", ![r].status = 200,
                                      ![r].conversation_id = c]
           /\ conversations' = IF allowed THEN after.conversations ELSE conversations
           /\ messages' = IF allowed THEN after.messages ELSE messages
    /\ UNCHANGED <<tasks, nextTaskId, nextConvId, nextMsgId, turns, ui>>

\* the response has been sent; the worker takes the next request
Finish(r) ==
    /\ requests[r].pc \in {"responding", "failed"}
    /\ requests' = [requests EXCEPT ![r] = IdleReq]
    /\ UNCHANGED <<tasks, nextTaskId, conversations, nextConvId, messages, nextMsgId, turns, ui>>

Next ==
    \E r \in Reqs :
        \/ Receive(r)
        \/ verify_jwt_middleware(r)
        \/ other(r)
        \/ chat(r)
        \/ create_conversation(r)
        \/ load_conversation(r)
        \/ run_agent_with_message(r)
        \/ agent_error(r)
        \/ execute_tool(r)
        \/ cancel(r)
        \/ persist(r)
        \/ get_conversation(r)
        \/ delete_conversation(r)
        \/ Finish(r)

Spec == Init /\ [][Next]_vars

\* the steps the server takes by itself once a request is in: the middleware, the
\* route handlers, the timeout of the awaited agent call, and persisting the exchange
ServerStep(r) ==
    \/ verify_jwt_middleware(r)
    \/ other(r)
    \/ chat(r)
    \/ create_conversation(r)
    \/ load_conversation(r)
    \/ agent_error(r)
    \/ persist(r)
    \/ get_conversation(r)
    \/ delete_conversation(r)

\* the server keeps running; whether the agent ever answers is left open
FairSpec == Spec /\ \A r \in Reqs : WF_vars(ServerStep(r))

(* ----------------------- two users at the same time -------------------- *)
\* two workers, each serving the chat requests of one logged-in user
ConcReqs == {"r1", "r2"}
ConcUser == [r \in ConcReqs |-> IF r = "r1" THEN "u1" ELSE "u2"]

ConcInit ==
    /\ requests = [r \in ConcReqs |-> IdleReq]
    /\ tasks = SeedTasks
    /\ nextTaskId = Cardinality(DOMAIN SeedTasks) + 1
    /\ conversations = NoConversations
    /\ nextConvId = 1
    /\ messages = NoMessages
    /\ nextMsgId = 1
    /\ turns = 0
    /\ ui = NoClient

\* chatApi.sendMessage of a logged-in user: own token, own path, any conversation id
ReceiveChat(r) ==
    /\ requests[r].pc = "idle"
    /\ turns < MaxTurns
    /\ turns' = turns + 1
    /\ \E c \in 0..MaxConvId :
          requests' = [requests EXCEPT ![r] =
              [IdleReq EXCEPT !.pc = "middleware", !.endpoint = "chat",
                              !.header = [scheme |-> "Bearer ", sig |-> "valid",
                                          exp |-> "fresh", sub |-> ConcUser[r]],
                              !.path_user = ConcUser[r], !.conv_arg = c]]
    /\ UNCHANGED <<tasks, nextTaskId, conversations, nextConvId, messages, nextMsgId, ui>>

ConcNext ==
    \E r \in ConcReqs :
        \/ ReceiveChat(r)
        \/ verify_jwt_middleware(r)
        \/ chat(r)
        \/ create_conversation(r)
        \/ load_conversation(r)
        \/ run_agent_with_message(r)
        \/ execute_tool(r)
        \/ persist(r)
        \/ Finish(r)

ConcSpec == ConcInit /\ [][ConcNext]_vars

(* ---------------------------- the browser side ------------------------ *)
\* values of localStorage['authToken']: none, a JWT of a user, or the token of the
\* mock login ("mock.token.<payload>"), whose second segment is not a JWT payload
\* A token is its dot-separated segments, with the signature and expiry the server
\* will find. A segment is base64 of a JSON object (with the sub and user_id it
\* holds, NoUser for a missing key) or some other text.
TextSeg == [json |-> FALSE, sub |-> NoUser, user_id |-> NoUser]
JsonSeg(sub, user_id) == [json |-> TRUE, sub |-> sub, user_id |-> user_id]

NoToken == [sig |-> "none", exp |-> "none", segs |-> <<>>]

\* header.payload.signature, as the backend issues it
Jwt(u) ==
    [sig |-> "valid", exp |-> "fresh",
     segs |-> <<JsonSeg(NoUser, NoUser), JsonSeg(u, NoUser), TextSeg>>]

\* the users the mock starts with
SeedMockUsers ==
    <<[id |-> "1", email |-> "admin@example.com", username |-> "admin",
       password |-> "admin123"],
      [id |-> "2", email |-> "user@example.com", username |-> "user",
       password |-> "user123"],
      [id |-> "3", email |-> "test@example.com", username |-> "testuser",
       password |-> "password123"]>>

\* `mock.token.${btoa(JSON.stringify({user_id, email, username, exp}))}`
generateMockToken(userData) ==
    [sig |-> "invalid", exp |-> "fresh",
     segs |-> <<TextSeg, TextSeg, JsonSeg(NoUser, userData.id)>>]

MockToken == generateMockToken(SeedMockUsers[1])
Tokens == {NoToken, MockToken} \cup {Jwt(u) : u \in Users}

\* JSON.parse(atob(token.split('.')[1])); a throw is caught and null returned, for
\* which TextSeg stands
parseJwtPayload(token) ==
    IF Len(token.segs) >= 2 /\ token.segs[2].json THEN token.segs[2] ELSE TextSeg

\* payload?.sub || null, NoUser standing for null
getCurrentUserId(token) ==
    IF token = NoToken THEN NoUser ELSE parseJwtPayload(token).sub

\* the header value `Bearer ${token}`; sub is the claim the server's decoder reads
Bearer(token) ==
    [scheme |-> "Bearer ", sig |-> token.sig, exp |-> token.exp,
     sub |-> parseJwtPayload(token).sub]

\* the hosted page before it is mounted. conversationId, userId and listening are the
\* component's state, the userId captured by initializeChatKit and whether the
\* threadchange listener sits on the mounted element; sender tells whose request is in
\* flight; answered, returned and created record what the session has seen so far:
\* answers received, the conversation_id of the last answer, conversations it created
ClosedPage(token) ==
    [page |-> "closed", authToken |-> token, userId |-> NoUser,
     conversationId |-> NoConv, listening |-> FALSE, sender |-> "none",
     answered |-> 0, returned |-> NoConv, created |-> {}]

ClientInit ==
    /\ requests = [r \in Reqs |-> IdleReq]
    /\ tasks = SeedTasks
    /\ nextTaskId = Cardinality(DOMAIN SeedTasks) + 1
    /\ conversations = NoConversations
    /\ nextConvId = 1
    /\ messages = NoMessages
    /\ nextMsgId = 1
    /\ turns = 0
    /\ ui = ClosedPage(NoToken)

ServerVars == <<requests, tasks, nextTaskId, conversations, nextConvId, messages, nextMsgId, turns>>

\* AuthProvider.login / register: the token of the response is stored
login(t) ==
    /\ ui.page = "closed"
    /\ t # NoToken
    /\ ui' = [ui EXCEPT !.authToken = t]
    /\ UNCHANGED ServerVars

\* AuthProvider.logout: the token is removed and the router leaves the page
logout ==
    /\ ui.page # "closed"
    /\ ui' = [ClosedPage(NoToken) EXCEPT !.sender = ui.sender]
    /\ UNCHANGED ServerVars

\* localStorage belongs to the origin: login or logout in another tab of the same
\* browser rewrites authToken while this tab's page stays mounted
storage(t) ==
    /\ ui.page = "ready"
    /\ t # ui.authToken
    /\ ui' = [ui EXCEPT !.authToken = t]
    /\ UNCHANGED ServerVars

\* the mount of ChatKitHostedPage: userId is read from the token once, here
initializeChatKit ==
    /\ ui.page = "closed"
    /\ LET userId == getCurrentUserId(ui.authToken)
       IN  ui' = IF userId = NoUser
                 THEN [ClosedPage(ui.authToken) EXCEPT !.page = "error",
                                                       !.sender = ui.sender]
                 ELSE [ClosedPage(ui.authToken) EXCEPT !.page = "ready",
                                                       !.userId = userId,
                                                       !.listening = TRUE,
                                                       !.sender = ui.sender]
    /\ UNCHANGED ServerVars

\* the custom fetch of the hosted page, up to the POST
fetch(r) ==
    /\ ui.page = "ready"
    /\ ui.sender = "none"
    /\ requests[r].pc = "idle"
    /\ turns < MaxTurns
    /\ nextMsgId + 1 <= MaxMsgId
    /\ nextConvId <= MaxConvId
    /\ LET token == ui.authToken
           headers == IF token # NoToken THEN Bearer(token) ELSE NoHeader
       IN  requests' = [requests EXCEPT ![r] =
                [IdleReq EXCEPT !.pc = "middleware", !.endpoint = "chat",
                                !.header = headers, !.path_user = ui.userId,
                                !.conv_arg = ui.conversationId]]
    /\ turns' = turns + 1
    /\ ui' = [ui EXCEPT !.sender = "hosted"]
    /\ UNCHANGED <<tasks, nextTaskId, conversations, nextConvId, messages, nextMsgId>>

\* the custom fetch after the POST: a response that is not ok throws; an ok one is
\* rewritten to {id, role, content, created_at} for ChatKit. No component state is set.
fetch_response(r) ==
    /\ ui.sender = "hosted"
    /\ requests[r].pc \in {"responding", "failed"}
    /\ requests' = [requests EXCEPT ![r] = IdleReq]
    /\ ui' = IF requests[r].status = 200 /\ ui.page = "ready"
             THEN [ui EXCEPT !.sender = "none",
                             !.answered = @ + 1,
                             !.returned = requests[r].conversation_id,
                             !.created = IF requests[r].conv_arg = NoConv
                                         THEN @ \cup {requests[r].conversation_id}
                                         ELSE @]
             ELSE [ui EXCEPT !.sender = "none"]
    /\ UNCHANGED <<tasks, nextTaskId, conversations, nextConvId, messages, nextMsgId, turns>>

\* a 'threadchange' event of the ChatKit element: its threadId goes to component
\* state, and the initialising effect, which depends on conversationId, mounts a new
\* element; the listener stays on the element that was removed
handleThreadChange(threadId) ==
    /\ ui.page = "ready"
    /\ ui.listening
    /\ threadId # NoConv
    /\ threadId # ui.conversationId
    /\ LET userId == getCurrentUserId(ui.authToken)
       IN  ui' = IF userId = NoUser
                 THEN [ui EXCEPT !.conversationId = threadId, !.listening = FALSE,
                                 !.page = "error"]
                 ELSE [ui EXCEPT !.conversationId = threadId, !.listening = FALSE,
                                 !.userId = userId]
    /\ UNCHANGED ServerVars

\* a chatApi method: throws 'Authentication required' without token or userId,
\* otherwise sends the request with the token and the userId read from it
chatApi(r, endpoint, c) ==
    /\ ui.sender = "none"
    /\ requests[r].pc = "idle"
    /\ LET token == ui.authToken
           userId == getCurrentUserId(ui.authToken)
       IN  /\ ~(token = NoToken \/ userId = NoUser)
           /\ requests' = [requests EXCEPT ![r] =
                    [IdleReq EXCEPT !.pc = "middleware", !.endpoint = endpoint,
                                    !.header = Bearer(token), !.path_user = userId,
                                    !.conv_arg = c]]
    /\ ui' = [ui EXCEPT !.sender = "chatApi"]
    /\ UNCHANGED <<tasks, nextTaskId, conversations, nextConvId, messages, nextMsgId>>

sendMessage(r) ==
    /\ turns < MaxTurns
    /\ nextMsgId + 1 <= MaxMsgId
    /\ nextConvId <= MaxConvId
    /\ \E c \in 0..MaxConvId : chatApi(r, "chat", c)
    /\ turns' = turns + 1

getConversation(r) ==
    /\ \E c \in 1..MaxConvId : chatApi(r, "get_conversation", c)
    /\ UNCHANGED turns

deleteConversation(r) ==
    /\ \E c \in 1..MaxConvId : chatApi(r, "delete_conversation", c)
    /\ UNCHANGED turns

\* the response of a chatApi call reaches its caller
chatApi_response(r) ==
    /\ ui.sender = "chatApi"
    /\ requests[r].pc \in {"responding", "failed"}
    /\ requests' = [requests EXCEPT ![r] = IdleReq]
    /\ ui' = [ui EXCEPT !.sender = "none"]
    /\ UNCHANGED <<tasks, nextTaskId, conversations, nextConvId, messages, nextMsgId, turns>>

ClientNext ==
    \/ \E t \in Tokens : login(t)
    \/ logout
    \/ \E t \in Tokens : storage(t)
    \/ initializeChatKit
    \/ \E threadId \in 0..MaxConvId : handleThreadChange(threadId)
    \/ \E r \in Reqs :
          \/ fetch(r)
          \/ fetch_response(r)
          \/ sendMessage(r)
          \/ getConversation(r)
          \/ deleteConversation(r)
          \/ chatApi_response(r)
          \/ verify_jwt_middleware(r)
          \/ chat(r)
          \/ create_conversation(r)
          \/ load_conversation(r)
          \/ run_agent_with_message(r)
          \/ agent_error(r)
          \/ persist(r)
          \/ get_conversation(r)
          \/ delete_conversation(r)

\* the browser clients in front of the server; the assistant answers in plain text
ClientSpec == ClientInit /\ [][ClientNext]_vars

(* ------------------------- apiClient and TasksPage --------------------- *)
\* the calls TasksPage can have in flight at once
Calls == {"k1", "k2"}
Ops == {"fetch", "create", "update", "delete", "toggle"}

EmptyStore == [t \in {} |-> SeedTasks[1]]

\* the rows of one user, as GET /tasks returns them
TasksOf(store, u) == [t \in {x \in DOMAIN store : store[x].user_id = u} |-> store[t]]

request_interceptor_NoHeader(token) == NoHeader

\* request interceptor of apiClient: the stored token, if any, goes into the header
request_interceptor(token) == IF token # NoToken THEN Bearer(token) ELSE NoHeader

\* response interceptor of apiClient (error branch): where the browser is afterwards
response_interceptor(status, location) == IF status = 401 THEN "/login" ELSE location

IdleCall ==
    [pc |-> "idle", op |-> "none", arg |-> 0, closure |-> EmptyStore, editing |-> 0,
     token |-> NoToken, header |-> NoHeader, status |-> 0, data |-> EmptyStore,
     outcome |-> "none", notice |-> "none", overlapped |-> FALSE, insync |-> FALSE]

\* TasksPage before its first effect has run. tasks, loading, showForm and editingTask
\* are its state; each call keeps the tasks and editingTask its handler closed over,
\* the token read by the interceptor, and what came back. overlapped and insync note
\* whether another call was in flight when the call began and whether the displayed
\* list equalled the server's rows when the overlap began; ops counts the operations
\* started after the first load.
TasksPage(token) ==
    [page |-> "tasks", mounted |-> FALSE, authToken |-> token, location |-> "/tasks",
     tasks |-> EmptyStore, loading |-> TRUE, showForm |-> FALSE, editingTask |-> 0,
     ops |-> 0, calls |-> [k \in Calls |-> IdleCall]]

TasksInit ==
    /\ requests = [r \in Reqs |-> IdleReq]
    /\ tasks = SeedTasks
    /\ nextTaskId = Cardinality(DOMAIN SeedTasks) + 1
    /\ conversations = NoConversations
    /\ nextConvId = 1
    /\ messages = NoMessages
    /\ nextMsgId = 1
    /\ turns = 0
    /\ ui = TasksPage(Jwt("u1"))

InFlight(call) == call.pc \in {"sent", "answered"}

\* a handler awaits apiClient: the request leaves with the interceptor's header
Send(k, op, arg) ==
    /\ ui.location = "/tasks"
    /\ ~InFlight(ui.calls[k])
    /\ op # "fetch" => ui.ops < MaxOps
    /\ LET others == {o \in Calls \ {k} : InFlight(ui.calls[o])}
           view == TasksOf(tasks, getCurrentUserId(ui.authToken))
           sync == IF others = {} THEN ui.tasks = view
                   ELSE \A o \in others : ui.calls[o].insync
       IN  ui' = [ui EXCEPT
                    !.calls = [c \in Calls |->
                        IF c = k
                        THEN [IdleCall EXCEPT
                                !.pc = "sent", !.op = op, !.arg = arg,
                                !.closure = ui.tasks, !.editing = ui.editingTask,
                                !.token = ui.authToken,
                                !.header = request_interceptor(ui.authToken),
                                !.overlapped = others # {}, !.insync = sync]
                        ELSE IF c \in others
                        THEN [ui.calls[c] EXCEPT !.overlapped = TRUE]
                        ELSE ui.calls[c]],
                    !.mounted = TRUE,
                    !.ops = IF op = "fetch" THEN @ ELSE @ + 1,
                    !.loading = IF op = "fetch" THEN TRUE ELSE @]
    /\ UNCHANGED ServerVars

\* the effect run once after mount
fetchTasks(k) ==
    /\ ~ui.mounted
    /\ Send(k, "fetch", 0)

\* the buttons 'Add New Task' and 'Create New Task'
handleNewTask ==
    /\ ui.location = "/tasks"
    /\ ui.mounted
    /\ ~ui.showForm \/ ui.editingTask # 0
    /\ ui' = [ui EXCEPT !.showForm = TRUE, !.editingTask = 0]
    /\ UNCHANGED ServerVars

handleEdit(t) ==
    /\ ui.location = "/tasks"
    /\ ~ui.loading
    /\ t \in DOMAIN ui.tasks
    /\ ~ui.showForm \/ ui.editingTask # t
    /\ ui' = [ui EXCEPT !.showForm = TRUE, !.editingTask = t]
    /\ UNCHANGED ServerVars

handleCancelForm ==
    /\ ui.location = "/tasks"
    /\ ui.showForm
    /\ ui' = [ui EXCEPT !.showForm = FALSE, !.editingTask = 0]
    /\ UNCHANGED ServerVars

\* the form is saved: PUT /tasks/{id} when a task is being edited, else POST /tasks
handleCreateOrUpdate(k) ==
    /\ ui.mounted
    /\ ui.showForm
    /\ IF ui.editingTask # 0
       THEN Send(k, "update", ui.editingTask)
       ELSE Send(k, "create", 0)

handleDelete(k, t) ==
    /\ ~ui.loading
    /\ t \in DOMAIN ui.tasks
    /\ Send(k, "delete", t)

handleToggleComplete(k, t) ==
    /\ ~ui.loading
    /\ t \in DOMAIN ui.tasks
    /\ Send(k, "toggle", t)

\* another tab of the browser logs out or logs in: authToken is rewritten
tokenChanged(t) ==
    /\ ui.location = "/tasks"
    /\ t \in {NoToken, MockToken, Jwt("u1")}
    /\ t # ui.authToken
    /\ ui' = [ui EXCEPT !.authToken = t]
    /\ UNCHANGED ServerVars

\* what a task endpoint does to the table, and the task or tasks it returns
rest_handler(call, store, newId, now) ==
    LET u == call.header.sub
        t == call.arg
        done(s, ids) == [status |-> 200, store |-> s, data |-> [x \in ids |-> s[x]]]
        miss == [status |-> 404, store |-> store, data |-> EmptyStore]
        mine == t \in DOMAIN store /\ store[t].user_id = u
    IN  CASE call.op = "fetch" ->
               [status |-> 200, store |-> store, data |-> TasksOf(store, u)]
          [] call.op = "create" ->
               done([x \in DOMAIN store \cup {newId} |->
                        IF x = newId
                        THEN [user_id |-> u, title |-> "new task", status |-> "pending",
                              priority |-> "medium", completed_at |-> 0]
                        ELSE store[x]], {newId})
          [] call.op = "update" ->
               IF mine THEN done([store EXCEPT ![t].priority = "high"], {t}) ELSE miss
          [] call.op = "toggle" ->
               IF ~mine THEN miss
               ELSE IF call.closure[t].status # "completed"
               THEN done([store EXCEPT ![t].status = "completed",
                                       ![t].completed_at = now], {t})
               ELSE done([store EXCEPT ![t].status = "pending",
                                       ![t].completed_at = 0], {t})
          [] call.op = "delete" ->
               IF mine
               THEN [status |-> 200, store |-> [x \in DOMAIN store \ {t} |-> store[x]],
                     data |-> EmptyStore]
               ELSE miss

\* the task API answers a request: 401 without a verifiable token, else the handler's
\* answer; it may also fail (500), or no answer may arrive before the timeout (0)
rest_api(k) ==
    /\ ui.calls[k].pc = "sent"
    /\ ui.calls[k].op = "create" => nextTaskId <= MaxTaskId
    /\ LET call == ui.calls[k]
           out == rest_handler(call, tasks, nextTaskId, Now)
       IN  \E fault \in {200, 500, 0} :
              LET status == IF ~verify_token(call.header).ok
                               \/ call.header.scheme # "Bearer " THEN 401
                            ELSE IF fault # 200 THEN fault ELSE out.status
              IN  /\ tasks' = IF status = 200 THEN out.store ELSE tasks
                  /\ nextTaskId' = IF status = 200 /\ call.op = "create"
                                   THEN nextTaskId + 1 ELSE nextTaskId
                  /\ ui' = [ui EXCEPT
                              !.calls[k].pc = "answered",
                              !.calls[k].status = status,
                              !.calls[k].data = IF status = 200 THEN out.data
                                                ELSE EmptyStore]
    /\ UNCHANGED <<requests, conversations, nextConvId, messages, nextMsgId, turns>>

\* the list a handler writes with setTasks after its await returned
setTasks(call) ==
    CASE call.op = "fetch" -> call.data
      [] call.op = "create" ->
           [t \in DOMAIN call.closure \cup DOMAIN call.data |->
               IF t \in DOMAIN call.data THEN call.data[t] ELSE call.closure[t]]
      [] call.op \in {"update", "toggle"} ->
           [t \in DOMAIN call.closure |->
               IF t = call.arg THEN call.data[t] ELSE call.closure[t]]
      [] call.op = "delete" ->
           [t \in DOMAIN call.closure \ {call.arg} |-> call.closure[t]]

catch_error_ClosesForm(u, k) ==
    [u EXCEPT !.calls[k].pc = "settled", !.calls[k].outcome = "rejected",
              !.calls[k].notice = "error",
              !.showForm = FALSE, !.editingTask = 0,
              !.location = response_interceptor(u.calls[k].status, @),
              !.loading = IF u.calls[k].op = "fetch" THEN FALSE ELSE @]

\* the response interceptor rejects, and the handler's catch shows the error
catch_error(u, k) ==
    [u EXCEPT !.calls[k].pc = "settled", !.calls[k].outcome = "rejected",
              !.calls[k].notice = "error",
              !.location = response_interceptor(u.calls[k].status, @),
              !.loading = IF u.calls[k].op = "fetch" THEN FALSE ELSE @]

\* the await returns a response: the rest of the handler's try block
resolved(k) ==
    /\ ui.location = "/tasks"
    /\ ui.calls[k].pc = "answered"
    /\ ui.calls[k].status = 200
    /\ LET call == ui.calls[k]
           form == call.op \in {"create", "update"}
       IN  ui' = [ui EXCEPT
                    !.calls[k].pc = "settled", !.calls[k].outcome = "resolved",
                    !.calls[k].notice = IF call.op = "fetch" THEN "info" ELSE "success",
                    !.tasks = setTasks(call),
                    !.showForm = IF form THEN FALSE ELSE @,
                    !.editingTask = IF form THEN 0 ELSE @,
                    !.loading = IF call.op = "fetch" THEN FALSE ELSE @]
    /\ UNCHANGED ServerVars

\* the await throws: an error response, or no response at all
rejected(k) ==
    /\ ui.location = "/tasks"
    /\ ui.calls[k].pc = "answered"
    /\ ui.calls[k].status # 200
    /\ ui' = catch_error(ui, k)
    /\ UNCHANGED ServerVars

TasksNext ==
    \/ \E t \in Tokens : tokenChanged(t)
    \/ handleNewTask
    \/ handleCancelForm
    \/ \E t \in 1..MaxTaskId : handleEdit(t)
    \/ \E k \in Calls :
          \/ fetchTasks(k)
          \/ handleCreateOrUpdate(k)
          \/ \E t \in 1..MaxTaskId : handleDelete(k, t)
          \/ \E t \in 1..MaxTaskId : handleToggleComplete(k, t)
          \/ rest_api(k)
          \/ resolved(k)
          \/ rejected(k)

\* TasksPage talking to the task API through apiClient
TasksSpec == TasksInit /\ [][TasksNext]_vars

(* ------------------------ AuthProvider and authApi --------------------- *)
Emails == {"admin@example.com", "ann@example.com", "bob@example.com"}
Usernames == {"admin", "ann", "bob"}
Passwords == {"admin123", "secret"}
Credentials == [email : Emails, username : Usernames, password : Passwords]

\* String(n) for the ids the mock hands out
IdString(n) == <<"1", "2", "3", "4", "5", "6">>[n]

NoResponse == [ok |-> FALSE, token |-> NoToken, user |-> NoUser]

\* mockAuthApi.login: the first user with that email and password, or a throw
mockAuthApi_login(users, credentials) ==
    LET found == {i \in DOMAIN users : /\ users[i].email = credentials.email
                                       /\ users[i].password = credentials.password}
        user == users[CHOOSE i \in found : \A j \in found : i <= j]
    IN  IF found = {}
        THEN [users |-> users, response |-> NoResponse]
        ELSE [users |-> users,
              response |-> [ok |-> TRUE, token |-> generateMockToken(user),
                            user |-> user.id]]

mockAuthApi_register_NoDuplicateCheck(users, credentials) ==
    LET newUser == [id |-> IdString(Len(users) + 1), email |-> credentials.email,
                    username |-> credentials.username,
                    password |-> credentials.password]
    IN  [users |-> Append(users, newUser),
         response |-> [ok |-> TRUE, token |-> generateMockToken(newUser),
                       user |-> newUser.id]]

\* mockAuthApi.register: a throw when the email or the username is taken, else the
\* new user is pushed with id String(MOCK_USERS.length + 1)
mockAuthApi_register(users, credentials) ==
    LET existing == {i \in DOMAIN users : \/ users[i].email = credentials.email
                                          \/ users[i].username = credentials.username}
        newUser == [id |-> IdString(Len(users) + 1), email |-> credentials.email,
                    username |-> credentials.username,
                    password |-> credentials.password]
    IN  IF existing # {}
        THEN [users |-> users, response |-> NoResponse]
        ELSE [users |-> Append(users, newUser),
              response |-> [ok |-> TRUE, token |-> generateMockToken(newUser),
                            user |-> newUser.id]]

isBackendAvailable_Always(status) == TRUE

\* isBackendAvailable: the health request answered 200 (0 stands for a throw)
isBackendAvailable(status) == status = 200

IdleFallback ==
    [pc |-> "idle", method |-> "none", credentials |-> NoResponse, health |-> 0,
     realCalls |-> 0, mockCalls |-> 0, realThrew |-> FALSE, from |-> "none",
     response |-> NoResponse, stored |-> FALSE]

\* AuthProvider before its effect has run, over what the browser keeps: authToken in
\* localStorage and MOCK_USERS in the memory of the page. call is the authApi call in
\* progress, with the number of real and mock calls callWithFallback has made.
AuthPage(token) ==
    [page |-> "auth", mounted |-> FALSE, authToken |-> token, user |-> NoUser,
     loading |-> TRUE, location |-> "/login", MOCK_USERS |-> SeedMockUsers,
     call |-> IdleFallback]

\* tokens a browser may hold from before: none, a JWT, a JWT without sub, a mock token
StoredTokens == {NoToken, Jwt("u1"), Jwt(NoUser), MockToken}

AuthInit ==
    /\ requests = [r \in Reqs |-> IdleReq]
    /\ tasks = SeedTasks
    /\ nextTaskId = Cardinality(DOMAIN SeedTasks) + 1
    /\ conversations = NoConversations
    /\ nextConvId = 1
    /\ messages = NoMessages
    /\ nextMsgId = 1
    /\ turns = 0
    /\ \E token \in StoredTokens : ui = AuthPage(token)

\* verifyTokenAndSetUser: the user is set when the payload has a sub. The catch
\* that removes the token is not reached, because parseJwtPayload catches its own
\* errors and returns null.
verifyTokenAndSetUser(u, token) ==
    LET payload == parseJwtPayload(token)
    IN  [u EXCEPT !.user = IF payload.json /\ payload.sub # NoUser
                           THEN payload.sub ELSE u.user,
                  !.loading = FALSE]

\* the effect of AuthProvider on initial load
AuthProvider_mount ==
    /\ ~ui.mounted
    /\ LET token == ui.authToken
       IN  ui' = IF token # NoToken
                 THEN [verifyTokenAndSetUser(ui, token) EXCEPT !.mounted = TRUE]
                 ELSE [ui EXCEPT !.mounted = TRUE, !.loading = FALSE]
    /\ UNCHANGED ServerVars

\* AuthProvider.login / register up to the await of authApi
authApi_call(method, credentials) ==
    /\ ui.mounted
    /\ ui.call.pc \in {"idle", "settled"}
    /\ ui' = [ui EXCEPT !.loading = TRUE,
                        !.call = [IdleFallback EXCEPT !.pc = "health",
                                                      !.method = method,
                                                      !.credentials = credentials]]
    /\ UNCHANGED ServerVars

\* login credentials carry no username: the field is pinned
AuthProvider_login(credentials) ==
    /\ credentials.username = "admin"
    /\ authApi_call("login", credentials)

AuthProvider_register(credentials) ==
    /\ Len(ui.MOCK_USERS) < MaxMockUsers
    /\ authApi_call("register", credentials)

\* callWithFallback: await isBackendAvailable()
health_check ==
    /\ ui.call.pc = "health"
    /\ \E status \in {200, 204, 0} :
          ui' = [ui EXCEPT !.call.health = status,
                           !.call.pc = IF isBackendAvailable(status)
                                       THEN "real" ELSE "mock"]
    /\ UNCHANGED ServerVars

\* callWithFallback: await realCall(); the backend answers with a token for its user,
\* with no token, or the call throws
realCall ==
    /\ ui.call.pc = "real"
    /\ \E answer \in {"token", "notoken", "throw"} :
          ui' = [ui EXCEPT
                   !.call.realCalls = @ + 1,
                   !.call.realThrew = answer = "throw",
                   !.call.pc = IF answer = "throw" THEN "mock" ELSE "returned",
                   !.call.from = IF answer = "throw" THEN @ ELSE "real",
                   !.call.response =
                       IF answer = "token"
                       THEN [ok |-> TRUE, token |-> Jwt("u1"), user |-> "u1"]
                       ELSE IF answer = "notoken"
                       THEN [ok |-> TRUE, token |-> NoToken, user |-> "u1"]
                       ELSE @]
    /\ UNCHANGED ServerVars

\* callWithFallback: await mockCall(); a throw of the mock leaves callWithFallback
mockCall ==
    /\ ui.call.pc = "mock"
    /\ LET out == IF ui.call.method = "login"
                  THEN mockAuthApi_login(ui.MOCK_USERS, ui.call.credentials)
                  ELSE mockAuthApi_register(ui.MOCK_USERS, ui.call.credentials)
       IN  ui' = [ui EXCEPT
                    !.MOCK_USERS = out.users,
                    !.call.mockCalls = @ + 1,
                    !.call.pc = IF out.response.ok THEN "returned" ELSE "threw",
                    !.call.from = IF out.response.ok THEN "mock" ELSE @,
                    !.call.response = out.response]
    /\ UNCHANGED ServerVars

\* AuthProvider.login / register after the await: the token is stored and the user
\* set, or the error is rethrown; loading ends either way
authApi_done ==
    /\ ui.call.pc \in {"returned", "threw"}
    /\ LET token == ui.call.response.token
       IN  ui' = IF ui.call.pc = "returned" /\ token # NoToken
                 THEN [ui EXCEPT !.authToken = token,
                                 !.user = ui.call.response.user,
                                 !.location = "/tasks",
                                 !.loading = FALSE,
                                 !.call.pc = "settled", !.call.stored = TRUE]
                 ELSE [ui EXCEPT !.loading = FALSE, !.call.pc = "settled"]
    /\ UNCHANGED ServerVars

AuthProvider_logout ==
    /\ ui.mounted
    /\ ui.user # NoUser
    /\ ui' = [ui EXCEPT !.authToken = NoToken, !.user = NoUser, !.location = "/login"]
    /\ UNCHANGED ServerVars

\* the page is loaded again: localStorage stays, the memory of the page does not
reload ==
    /\ ui.mounted
    /\ ui.call.pc \in {"idle", "settled"}
    /\ ui' = [AuthPage(ui.authToken) EXCEPT !.location = ui.location]
    /\ UNCHANGED ServerVars

AuthNext ==
    \/ AuthProvider_mount
    \/ \E credentials \in Credentials : AuthProvider_login(credentials)
    \/ \E credentials \in Credentials : AuthProvider_register(credentials)
    \/ health_check
    \/ realCall
    \/ mockCall
    \/ authApi_done
    \/ AuthProvider_logout
    \/ reload

\* the login pages of the browser
AuthSpec == AuthInit /\ [][AuthNext]_vars

(* ------------------------- NotificationProvider ----------------------- *)
\* setTimeout(..., 5000), in seconds
AutoClose == 5

NotificationTypes == {"success", "error", "warning", "info"}

\* NotificationProvider with nothing shown. Each notification carries the seconds since
\* it was shown and the seconds since the timeout of its component was last set.
NotifyPage == [page |-> "notify", notifications |-> <<>>, nextId |-> 1]

NotifyInit ==
    /\ requests = [r \in Reqs |-> IdleReq]
    /\ tasks = SeedTasks
    /\ nextTaskId = Cardinality(DOMAIN SeedTasks) + 1
    /\ conversations = NoConversations
    /\ nextConvId = 1
    /\ messages = NoMessages
    /\ nextMsgId = 1
    /\ turns = 0
    /\ ui = NotifyPage

\* the provider renders again: every Notification gets a new onClose arrow, so its
\* effect, which depends on [onClose], clears the timeout and sets a new one
rerender(notes) == [i \in DOMAIN notes |-> [notes[i] EXCEPT !.timer = 0]]

Without(notes, id) == SelectSeq(notes, LAMBDA n : n.id # id)

showNotification(type) ==
    /\ ui.nextId <= MaxNotes
    /\ ui' = [ui EXCEPT
                !.notifications =
                    rerender(Append(@, [id |-> ui.nextId, type |-> type,
                                        shown |-> 0, timer |-> 0])),
                !.nextId = @ + 1]
    /\ UNCHANGED ServerVars

\* the close button of a notification
hideNotification(id) ==
    /\ \E i \in DOMAIN ui.notifications : ui.notifications[i].id = id
    /\ ui' = [ui EXCEPT !.notifications = rerender(Without(@, id))]
    /\ UNCHANGED ServerVars

\* the timeout of a Notification fires: onClose() hides it
timer_fired(id) ==
    /\ \E i \in DOMAIN ui.notifications :
          /\ ui.notifications[i].id = id
          /\ ui.notifications[i].timer = AutoClose
    /\ ui' = [ui EXCEPT !.notifications = rerender(Without(@, id))]
    /\ UNCHANGED ServerVars

\* a second passes; a timeout that is due fires before the next second
second ==
    /\ ui.notifications # <<>>
    /\ \A i \in DOMAIN ui.notifications :
          /\ ui.notifications[i].timer < AutoClose
          /\ ui.notifications[i].shown < MaxShown
    /\ ui' = [ui EXCEPT !.notifications =
                [i \in DOMAIN @ |-> [@[i] EXCEPT !.shown = @ + 1, !.timer = @ + 1]]]
    /\ UNCHANGED ServerVars

NotifyNext ==
    \/ \E type \in NotificationTypes : showNotification(type)
    \/ \E id \in 1..MaxNotes : hideNotification(id)
    \/ \E id \in 1..MaxNotes : timer_fired(id)
    \/ second

\* the notifications of a page as time passes
NotifySpec == NotifyInit /\ [][NotifyNext]_vars

(* ------------------------------ ChatKitPage --------------------------- *)
Chars == {" ", "a"}

\* what the input box can hold
Inputs == UNION {[1..n -> Chars] : n \in 0..MaxInput}

RECURSIVE trimStart(_)
trimStart(s) == IF s # <<>> /\ Head(s) = " " THEN trimStart(Tail(s)) ELSE s

RECURSIVE trimEnd(_)
trimEnd(s) == IF s # <<>> /\ s[Len(s)] = " " THEN trimEnd(SubSeq(s, 1, Len(s) - 1)) ELSE s

\* String.prototype.trim
trim(s) == trimEnd(trimStart(s))

NoSelect == [pc |-> "idle", id |-> NoConv, status |-> 0]
NoChatResponse == [conversation_id |-> NoConv, message_id |-> 0]

\* ChatKitPage of user u1 after mount: the component's state, the chat requests and the
\* getConversation request in flight, whether loadConversations is pending. A request
\* in flight keeps the conversationId its handler closed over; switched records that
\* the user left that conversation while the request was in flight.
ChatPage ==
    [page |-> "chat", location |-> "/chat", user |-> "u1",
     messages |-> <<>>, input |-> <<>>, isLoading |-> FALSE, conversationId |-> NoConv,
     conversations |-> {}, isSidebarLoading |-> FALSE,
     sends |-> <<>>, select |-> NoSelect]

ChatPageInit ==
    /\ requests = [r \in Reqs |-> IdleReq]
    /\ tasks = SeedTasks
    /\ nextTaskId = Cardinality(DOMAIN SeedTasks) + 1
    /\ conversations = NoConversations
    /\ nextConvId = 1
    /\ messages = NoMessages
    /\ nextMsgId = 1
    /\ turns = 0
    /\ ui = ChatPage

RemoveAt(s, i) == SubSeq(s, 1, i - 1) \o SubSeq(s, i + 1, Len(s))

\* the conversation a chat request in flight belongs to, NoConv while the server has
\* not created it
TargetOf(call) ==
    IF call.conversation_id # NoConv THEN call.conversation_id
    ELSE call.response.conversation_id

\* the user leaves towards conversation c (NoConv: a new chat)
Leave(sends, c) ==
    [i \in DOMAIN sends |->
        [sends[i] EXCEPT !.switched = @ \/ c = NoConv \/ TargetOf(sends[i]) # c]]

\* onChange of the input box (disabled while loading) and the suggestion buttons of
\* the empty message list
setInput(v) ==
    /\ ui.location = "/chat"
    /\ ~ui.isLoading \/ ui.messages = <<>>
    /\ ui' = [ui EXCEPT !.input = v]
    /\ UNCHANGED ServerVars

sendMessage_guard_IgnoresLoading(input, isLoading) == trim(input) # <<>>

\* if (!input.trim() || isLoading) return
sendMessage_guard(input, isLoading) == ~(trim(input) = <<>> \/ isLoading)

\* the send button and the Enter key
ChatKitPage_sendMessage ==
    /\ ui.location = "/chat"
    /\ turns < MaxTurns
    /\ IF sendMessage_guard(ui.input, ui.isLoading)
       THEN /\ ui' = [ui EXCEPT
                        !.messages = Append(@, [role |-> "user", id |-> 0,
                                                conversation_id |-> NoConv]),
                        !.input = <<>>,
                        !.isLoading = TRUE,
                        !.sends = Append(@, [pc |-> "sent", message |-> trim(ui.input),
                                             conversation_id |-> ui.conversationId,
                                             switched |-> FALSE, status |-> 0,
                                             response |-> NoChatResponse])]
            /\ turns' = turns + 1
            /\ UNCHANGED <<requests, tasks, nextTaskId, conversations, nextConvId,
                           messages, nextMsgId>>
       ELSE UNCHANGED vars

\* POST /api/{user_id}/chat: the conversation is created or loaded, the user message
\* and the assistant message are stored, their ids are returned
chat_endpoint(i) ==
    /\ i \in DOMAIN ui.sends
    /\ ui.sends[i].pc = "sent"
    /\ \E fault \in {200, 401, 500} :
         LET call == ui.sends[i]
             c == IF call.conversation_id = NoConv THEN nextConvId
                  ELSE call.conversation_id
         IN  IF fault # 200
             THEN /\ ui' = [ui EXCEPT !.sends[i].pc = "answered",
                                      !.sends[i].status = fault]
                  /\ UNCHANGED ServerVars
             ELSE IF call.conversation_id # NoConv /\ c \notin DOMAIN conversations
             THEN /\ ui' = [ui EXCEPT !.sends[i].pc = "answered",
                                      !.sends[i].status = 404]
                  /\ UNCHANGED ServerVars
             ELSE /\ nextMsgId + 1 <= MaxMsgId
                  /\ call.conversation_id = NoConv => nextConvId <= MaxConvId
                  /\ conversations' =
                        [x \in DOMAIN conversations \cup {c} |->
                            IF x = c THEN [user_id |-> ui.user, updated_at |-> Now + 2]
                            ELSE conversations[x]]
                  /\ nextConvId' = IF call.conversation_id = NoConv
                                   THEN nextConvId + 1 ELSE nextConvId
                  /\ messages' =
                        [m \in DOMAIN messages \cup {nextMsgId, nextMsgId + 1} |->
                            IF m = nextMsgId THEN UserMessage(c)
                            ELSE IF m = nextMsgId + 1 THEN AssistantMessage(c, <<>>)
                            ELSE messages[m]]
                  /\ nextMsgId' = nextMsgId + 2
                  /\ ui' = [ui EXCEPT
                              !.sends[i].pc = "answered",
                              !.sends[i].status = 200,
                              !.sends[i].response =
                                  [conversation_id |-> c, message_id |-> nextMsgId + 1]]
                  /\ UNCHANGED <<requests, tasks, nextTaskId, turns>>

\* sendMessage after the await: the try block and finally
send_resolved(i) ==
    /\ i \in DOMAIN ui.sends
    /\ ui.sends[i].pc = "answered"
    /\ ui.sends[i].status = 200
    /\ LET call == ui.sends[i]
       IN  ui' = [ui EXCEPT
                    !.conversationId = IF call.conversation_id = NoConv
                                       THEN call.response.conversation_id ELSE @,
                    !.isSidebarLoading = @ \/ call.conversation_id = NoConv,
                    !.messages = Append(@, [role |-> "assistant",
                                            id |-> call.response.message_id,
                                            conversation_id |->
                                                call.response.conversation_id]),
                    !.isLoading = FALSE,
                    !.sends = RemoveAt(@, i)]
    /\ UNCHANGED ServerVars

\* sendMessage after the await: the catch block and finally
send_rejected(i) ==
    /\ i \in DOMAIN ui.sends
    /\ ui.sends[i].pc = "answered"
    /\ ui.sends[i].status # 200
    /\ ui' = [ui EXCEPT
                !.messages = Append(@, [role |-> "assistant", id |-> 0,
                                        conversation_id |-> NoConv]),
                !.location = IF ui.sends[i].status = 401 THEN "/login" ELSE @,
                !.isLoading = FALSE,
                !.sends = RemoveAt(@, i)]
    /\ UNCHANGED ServerVars

\* loadConversations answered: the sidebar lists the user's conversations
loadConversations ==
    /\ ui.isSidebarLoading
    /\ ui' = [ui EXCEPT
                !.conversations = {c \in DOMAIN conversations :
                                      OwnsConversation(conversations, c, ui.user)},
                !.isSidebarLoading = FALSE]
    /\ UNCHANGED ServerVars

handleNewChat ==
    /\ ui.location = "/chat"
    /\ ui' = [ui EXCEPT !.conversationId = NoConv,
                        !.messages = <<>>,
                        !.sends = Leave(@, NoConv)]
    /\ UNCHANGED ServerVars

\* a click on a conversation of the sidebar: getConversation is sent
handleSelectConversation(id) ==
    /\ ui.location = "/chat"
    /\ id \in ui.conversations
    /\ ui.select.pc = "idle"
    /\ ui' = [ui EXCEPT !.select = [pc |-> "sent", id |-> id, status |-> 0]]
    /\ UNCHANGED ServerVars

\* the messages of a conversation in the order of their ids
RECURSIVE HistoryOf(_, _)
HistoryOf(msgs, ids) ==
    IF ids = {} THEN <<>>
    ELSE LET m == CHOOSE x \in ids : \A y \in ids : x <= y
         IN  <<[role |-> msgs[m].role, id |-> m,
                conversation_id |-> msgs[m].conversation_id]>>
             \o HistoryOf(msgs, ids \ {m})

\* handleSelectConversation after the await
select_resolved ==
    /\ ui.select.pc = "sent"
    /\ \E fault \in {200, 500} :
         IF fault = 200 /\ ui.select.id \in DOMAIN conversations
         THEN ui' = [ui EXCEPT
                       !.conversationId = ui.select.id,
                       !.messages = HistoryOf(messages,
                                              MessagesOf(messages, ui.select.id)),
                       !.sends = Leave(@, ui.select.id),
                       !.select = NoSelect]
         ELSE ui' = [ui EXCEPT !.select = NoSelect]
    /\ UNCHANGED ServerVars

ChatPageNext ==
    \/ \E v \in Inputs : setInput(v)
    \/ ChatKitPage_sendMessage
    \/ \E i \in 1..MaxTurns : chat_endpoint(i)
    \/ \E i \in 1..MaxTurns : send_resolved(i)
    \/ \E i \in 1..MaxTurns : send_rejected(i)
    \/ loadConversations
    \/ handleNewChat
    \/ \E id \in 1..MaxConvId : handleSelectConversation(id)
    \/ select_resolved

\* one ChatKitPage and the chat endpoints it calls
ChatPageSpec == ChatPageInit /\ [][ChatPageNext]_vars

(* ------------------------------ properties ---------------------------- *)
\* what a request carries, read off its header alone
BadHeader(h) ==
    h.scheme # "Bearer " \/ h.sig # "valid" \/ h.exp # "fresh" \/ h.sub = NoUser

\* the verified subject of a request, NoUser when its token does not verify
Subject(req) == IF BadHeader(req.header) THEN NoUser ELSE req.header.sub

\* the step in which request r executes one tool call
ToolStep(r) ==
    /\ requests[r].pc = "executing"
    /\ requests'[r].pc = "executing"
    /\ Len(requests'[r].tool_calls) = Len(requests[r].tool_calls) + 1

LastRecord(req) == req.tool_calls[Len(req.tool_calls)]
LastRequested(req) == req.requested[Len(req.requested)]

\* the tasks a step created, changed or removed
TouchedTasks ==
    {t \in DOMAIN tasks \cup DOMAIN tasks' :
        \/ t \notin DOMAIN tasks
        \/ t \notin DOMAIN tasks'
        \/ tasks[t] # tasks'[t]}

OwnerAround(t) == IF t \in DOMAIN tasks THEN tasks[t].user_id ELSE tasks'[t].user_id

\* C1: a chat request whose token verifies but whose path user_id differs from the
\* token subject is answered 403 and executes no tool operation.
C1_PathMismatchForbidden ==
    \A r \in Reqs :
        LET q == requests[r]
        IN  (/\ q.endpoint = "chat"
             /\ ~BadHeader(q.header)
             /\ q.path_user # q.header.sub
             /\ q.pc \notin {"idle", "middleware", "handler"})
            => (/\ q.pc = "failed"
                /\ q.status = 403
                /\ q.error = Forbidden
                /\ q.requested = <<>>
                /\ q.tool_calls = <<>>)

C1_Witness ==
    \E r \in Reqs :
        /\ requests[r].endpoint = "chat"
        /\ ~BadHeader(requests[r].header)
        /\ requests[r].path_user # requests[r].header.sub
        /\ requests[r].status = 403

C4_ForeignTaskUntouched ==
    [][\A r \in Reqs :
          ToolStep(r) =>
            LET rec == LastRecord(requests'[r])
                sub == rec.arguments.user_id
                t == rec.arguments.task_id
            IN  (/\ rec.tool_name \in {"complete_task", "delete_task", "update_task"}
                 /\ t \in DOMAIN tasks
                 /\ tasks[t].user_id # sub)
                => (/\ ~rec.result.success
                    /\ rec.result.error = OwnershipMismatch
                    /\ tasks' = tasks)]_vars

C4_Witness ==
    \E r \in Reqs :
        /\ requests[r].tool_calls # <<>>
        /\ requests[r].tool_calls[1].tool_name = "complete_task"
        /\ requests[r].tool_calls[1].result.error = OwnershipMismatch
        /\ requests[r].tool_calls[1].arguments.task_id \in DOMAIN tasks
        /\ tasks[requests[r].tool_calls[1].arguments.task_id].user_id
             # requests[r].tool_calls[1].arguments.user_id
        /\ tasks[requests[r].tool_calls[1].arguments.task_id].status = "pending"

\* C5: list_tasks(user_id, status_filter?) returns exactly the tasks owned by the user_id
\* it runs with (all of them, or those matching the status filter) and never a task of
\* another user, whatever the agent supplied.
C5_ListOnlyOwnTasks ==
    [][\A r \in Reqs :
          ToolStep(r) =>
            LET rec == LastRecord(requests'[r])
                sub == rec.arguments.user_id
                filter == LastRequested(requests'[r]).arguments.status
            IN  rec.tool_name = "list_tasks"
                => (/\ rec.result.success
                    /\ \A t \in rec.result.data : t \in DOMAIN tasks /\ tasks[t].user_id = sub
                    /\ \A t \in DOMAIN tasks :
                          (tasks[t].user_id = sub /\ (filter = "" \/ tasks[t].status = filter))
                          => t \in rec.result.data
                    /\ \A t \in rec.result.data : filter = "" \/ tasks[t].status = filter)]_vars

C5_Witness ==
    \E r \in Reqs :
        /\ requests[r].tool_calls # <<>>
        /\ requests[r].tool_calls[1].tool_name = "list_tasks"
        /\ requests[r].requested[1].arguments.user_id # Subject(requests[r])
        /\ requests[r].tool_calls[1].result.data # {}
        /\ \E t \in DOMAIN tasks : tasks[t].user_id # Subject(requests[r])

\* C6: add_task(user_id, title, priority) creates one task with status pending, the given
\* priority, owner user_id and an identifier no existing task has; a list_tasks of that
\* user then contains it and a list_tasks of any other user does not.
C6_AddTaskCreatesOwnPendingTask ==
    [][\A r \in Reqs :
          ToolStep(r) =>
            LET rec == LastRecord(requests'[r])
                sub == rec.arguments.user_id
                asked == LastRequested(requests'[r]).arguments
            IN  rec.tool_name = "add_task"
                => (/\ rec.result.success
                    /\ \E t \in DOMAIN tasks' \ DOMAIN tasks :
                          /\ rec.result.data = {t}
                          /\ DOMAIN tasks' = DOMAIN tasks \cup {t}
                          /\ \A x \in DOMAIN tasks : tasks'[x] = tasks[x]
                          /\ tasks'[t].status = "pending"
                          /\ tasks'[t].user_id = sub
                          /\ tasks'[t].title = asked.title
                          /\ asked.priority # "" => tasks'[t].priority = asked.priority
                          /\ t \in handle_list_tasks(Args(sub, 0, "", ""), tasks').result.data
                          /\ \A u \in Users \ {sub} :
                                t \notin handle_list_tasks(Args(u, 0, "", ""), tasks').result.data)]_vars

C6_Witness ==
    \E r \in Reqs :
        /\ requests[r].tool_calls # <<>>
        /\ requests[r].tool_calls[1].tool_name = "add_task"
        /\ requests[r].requested[1].arguments.priority = "low"
        /\ \E t \in requests[r].tool_calls[1].result.data :
              /\ t \in DOMAIN tasks
              /\ tasks[t].priority = "low"
              /\ tasks[t].status = "pending"
              /\ \E x \in DOMAIN tasks : x # t

\* C7: a chat message without conversation_id creates exactly one Conversation, owned by
\* the requester, whose id the response carries; a message that supplies an id creates
\* none and its Messages are appended to that Conversation.
C7_OneConversationPerThread ==
    [][LET created == DOMAIN conversations' \ DOMAIN conversations
       IN  /\ created # {} =>
                \E r \in Reqs :
                    /\ requests[r].pc = "resolving"
                    /\ requests[r].conv_arg = NoConv
                    /\ created = {requests'[r].conversation_id}
                    /\ conversations'[requests'[r].conversation_id].user_id
                         = Subject(requests[r])
           /\ \A r \in Reqs :
                /\ (requests[r].pc = "resolving" /\ requests'[r].pc = "dispatching")
                   => IF requests[r].conv_arg = NoConv
                      THEN Cardinality(created) = 1
                      ELSE /\ created = {}
                           /\ requests'[r].conversation_id = requests[r].conv_arg
                /\ (requests[r].pc \in {"dispatching", "executing"}
                    /\ requests'[r].pc # "idle")
                   => requests'[r].conversation_id = requests[r].conversation_id
                /\ (requests[r].pc = "executing" /\ requests'[r].pc = "responding")
                   => LET c == requests'[r].conversation_id
                      IN  /\ DOMAIN messages' # DOMAIN messages
                          /\ \A m \in DOMAIN messages' \ DOMAIN messages :
                                messages'[m].conversation_id = c
                          /\ MessagesOf(messages, c) \subseteq MessagesOf(messages', c)]_vars

C7_Witness ==
    \E r \in Reqs :
        /\ requests[r].endpoint = "chat"
        /\ requests[r].pc = "responding"
        /\ requests[r].conv_arg # NoConv
        /\ requests[r].conversation_id = requests[r].conv_arg
        /\ Cardinality(MessagesOf(messages, requests[r].conv_arg)) = 4
        /\ nextConvId = 2

\* C8: a chat request naming a Conversation of another user fails with the ownership
\* error (403): nothing is appended, updated_at stays, and nothing of that Conversation
\* is forwarded to the agent.
C8_ForeignConversationRejected ==
    [][\A r \in Reqs :
          LET q == requests[r]
          IN  /\ (/\ q.pc = "resolving"
                  /\ q.conv_arg \in DOMAIN conversations
                  /\ conversations[q.conv_arg].user_id # Subject(q)
                  /\ requests'[r] # q)
                 => (/\ requests'[r].pc = "failed"
                     /\ requests'[r].status = 403
                     /\ requests'[r].error = ConversationOwnershipMismatch
                     /\ requests'[r].context_user = NoUser
                     /\ requests'[r].history = {}
                     /\ messages' = messages
                     /\ conversations' = conversations)
              /\ q.pc = "failed" => requests'[r].pc \in {"failed", "idle"}]_vars

C8_Witness ==
    \E r \in Reqs :
        /\ requests[r].endpoint = "chat"
        /\ requests[r].error = ConversationOwnershipMismatch
        /\ requests[r].conv_arg \in DOMAIN conversations
        /\ MessagesOf(messages, requests[r].conv_arg) # {}

\* the conversation ids that were handed out and are no longer in the store
DeletedConversations == {c \in 1..(nextConvId - 1) : c \notin DOMAIN conversations}

\* C9: once a Conversation is deleted no Message with that parent remains, and every
\* later GET of that id by an authenticated user on their own path is answered 404.
C9_DeleteCascades ==
    /\ [](\A c \in DeletedConversations : MessagesOf(messages, c) = {})
    /\ [][\A r \in Reqs :
             LET q == requests[r]
             IN  (/\ q.pc = "handler"
                  /\ q.endpoint = "get_conversation"
                  /\ q.path_user = Subject(q)
                  /\ q.conv_arg \in DeletedConversations
                  /\ requests'[r] # q)
                 => requests'[r].status = 404]_vars

C9_Witness ==
    \E r \in Reqs :
        /\ requests[r].endpoint = "get_conversation"
        /\ requests[r].status = 404
        /\ requests[r].conv_arg \in DeletedConversations
        /\ nextMsgId > 1
        /\ DOMAIN messages = {}

\* C10: a chat request that reaches Responding has appended one user Message followed by
\* one assistant Message holding the records of all its tool calls, has moved the
\* Conversation's updated_at forward, and returns the assistant Message's id.
C10_ExchangePersisted ==
    [][\A r \in Reqs :
          (requests[r].pc = "executing" /\ requests'[r].pc = "responding")
          => LET c == requests[r].conversation_id
                 new == DOMAIN messages' \ DOMAIN messages
                 a == requests'[r].message_id
             IN  /\ Cardinality(new) = 2
                 /\ a \in new
                 /\ messages'[a].role = "assistant"
                 /\ messages'[a].tool_calls = requests[r].tool_calls
                 /\ \E u \in new :
                       /\ u < a
                       /\ messages'[u].role = "user"
                       /\ messages'[u].tool_calls = <<>>
                       /\ \A m \in DOMAIN messages : m < u
                 /\ \A m \in new : messages'[m].conversation_id = c
                 /\ \A m \in DOMAIN messages :
                       m \in DOMAIN messages' /\ messages'[m] = messages[m]
                 /\ conversations'[c].updated_at > conversations[c].updated_at
                 /\ requests'[r].status = 200]_vars

C10_Witness ==
    \E r \in Reqs :
        /\ requests[r].endpoint = "chat"
        /\ requests[r].pc = "responding"
        /\ requests[r].tool_calls # <<>>
        /\ requests[r].message_id \in DOMAIN messages
        /\ messages[requests[r].message_id].tool_calls = requests[r].tool_calls
        /\ requests[r].history # {}

\* C11: Messages are append-only: a Message that exists keeps its role, its tool-call
\* records and its parent Conversation in every later state, and it leaves the store
\* only in a step that deletes its Conversation.
C11_MessagesAppendOnly ==
    [][\A m \in DOMAIN messages :
          IF m \in DOMAIN messages'
          THEN messages'[m] = messages[m]
          ELSE /\ messages[m].conversation_id \in DOMAIN conversations
               /\ messages[m].conversation_id \notin DOMAIN conversations']_vars

C11_Witness ==
    /\ \E c \in DeletedConversations : c < nextConvId
    /\ \E m \in DOMAIN messages :
          /\ messages[m].role = "assistant"
          /\ messages[m].tool_calls # <<>>
          /\ messages[m].conversation_id \in DOMAIN conversations
    /\ nextMsgId = 5

\* C12: tool calls commit one by one: a request whose agent call fails has executed no
\* tool and changed no task; a request that fails or is cancelled after k tool calls
\* leaves the task table as those k calls left it; and only a tool call changes a task.
C12_ToolCallsCommitIndependently ==
    [][/\ \A r \in Reqs :
            /\ (requests[r].pc = "dispatching" /\ requests'[r].pc = "failed")
               => (/\ requests[r].tool_calls = <<>>
                   /\ requests'[r].error = UpstreamAgentError
                   /\ tasks' = tasks)
            /\ (requests[r].pc = "executing" /\ requests'[r].pc = "failed")
               => (/\ requests'[r].tool_calls = requests[r].tool_calls
                   /\ tasks' = tasks)
       /\ tasks' # tasks => \E r \in Reqs : ToolStep(r)]_vars

C12_Witness ==
    \E r \in Reqs :
        /\ requests[r].pc = "failed"
        /\ requests[r].status = 502
        /\ requests[r].tool_calls # <<>>
        /\ requests[r].tool_calls[1].tool_name = "add_task"
        /\ requests[r].tool_calls[1].result.data \subseteq DOMAIN tasks
        /\ requests[r].tool_calls[1].result.data # {}

\* C13: every chat request that has been received eventually reaches Responding or
\* failure, even if the agent never answers (the awaited call times out with
\* UpstreamAgentError), and a request is dispatched to the agent at most once.
C13_ChatRequestTerminates ==
    /\ \A r \in Reqs :
          (requests[r].endpoint = "chat" /\ requests[r].pc # "idle")
          ~> (requests[r].pc \in {"responding", "failed"})
    /\ [][\A r \in Reqs :
             /\ requests'[r].pc = "dispatching"
                => requests[r].pc \in {"resolving", "dispatching"}
             /\ (requests[r].pc = "dispatching" /\ requests'[r].pc # "dispatching")
                => \/ requests'[r].pc = "executing"
                   \/ /\ requests'[r].pc = "failed"
                      /\ requests'[r].status = 502
                      /\ requests'[r].error = UpstreamAgentError]_vars

C13_Witness ==
    \E r \in Reqs :
        /\ requests[r].endpoint = "chat"
        /\ requests[r].pc = "failed"
        /\ requests[r].error = UpstreamAgentError
        /\ requests[r].context_user = NoUser
        /\ requests[r].conversation_id # NoConv

\* the failure a chat request must end in, if it fails: the first check it does not
\* pass in the order Token Verifier, Identity Guard, conversation resolution, agent call
FirstError(q) ==
    IF q.header.scheme # "Bearer " THEN [status |-> 401, error |-> Unauthenticated]
    ELSE IF BadHeader(q.header) THEN [status |-> 401, error |-> BadCredentials]
    ELSE IF q.path_user # q.header.sub THEN [status |-> 403, error |-> Forbidden]
    ELSE IF q.conv_arg # NoConv /\ q.conv_arg \notin DOMAIN conversations
    THEN [status |-> 404, error |-> NotFound]
    ELSE IF q.conv_arg # NoConv /\ conversations[q.conv_arg].user_id # q.header.sub
    THEN [status |-> 403, error |-> ConversationOwnershipMismatch]
    ELSE [status |-> 502, error |-> UpstreamAgentError]

C18_CompleteTaskStampsOwnTask ==
    [][\A r \in Reqs :
         (/\ ToolStep(r)
          /\ LastRecord(requests'[r]).tool_name = "complete_task"
          /\ LastRecord(requests'[r]).arguments.task_id \in DOMAIN tasks
          /\ tasks[LastRecord(requests'[r]).arguments.task_id].user_id
               = LastRecord(requests'[r]).arguments.user_id)
         => LET rec == LastRecord(requests'[r])
                t == rec.arguments.task_id
            IN  /\ rec.result.success
                /\ rec.result.error = NoError
                /\ DOMAIN tasks' = DOMAIN tasks
                /\ tasks'[t].status = "completed"
                /\ tasks'[t].completed_at # 0
                /\ tasks'[t] = [tasks[t] EXCEPT !.status = "completed",
                                                !.completed_at = tasks'[t].completed_at]
                /\ \A o \in DOMAIN tasks \ {t} : tasks'[o] = tasks[o]]_vars

C18_Witness ==
    \E r \in Reqs :
        /\ requests[r].pc = "executing"
        /\ requests[r].tool_calls # <<>>
        /\ requests[r].tool_calls[1].tool_name = "complete_task"
        /\ requests[r].tool_calls[1].result.success
        /\ LET t == requests[r].tool_calls[1].arguments.task_id
           IN  /\ t \in DOMAIN tasks
               /\ tasks[t].status = "completed"
               /\ tasks[t].completed_at > 0
               /\ tasks[t].user_id = Subject(requests[r])
               /\ \E o \in DOMAIN tasks \ {t} :
                     tasks[o].status = "pending" /\ tasks[o].completed_at = 0

\* C19: in the hosted ChatKit page, once the first message of a session is answered,
\* the conversation_id the backend returned is held in component state and sent as
\* conversation_id with every later message of the session, so that the session
\* creates at most one Conversation.
C19_SessionKeepsConversationId ==
    /\ (ui.page = "ready" /\ ui.answered > 0) => ui.conversationId = ui.returned
    /\ \A r \in Reqs :
          (ui.page = "ready" /\ ui.sender = "hosted" /\ ui.answered > 0
             /\ requests[r].pc # "idle")
          => requests[r].conv_arg = ui.returned
    /\ Cardinality(ui.created) <= 1

\* a session that was answered twice and never heard a threadchange event
C19_Witness ==
    /\ ui.page = "ready"
    /\ ui.answered = 2
    /\ ui.listening
    /\ ui.authToken = Jwt(ui.userId)

\* C20: every request the frontend chat clients send (the chatApi methods and the
\* custom fetch of the hosted page) carries an Authorization: Bearer <token> header,
\* and its path user_id is the sub claim of that token; none is sent without a token.
C20_RequestsCarryTokenOfPathUser ==
    \A r \in Reqs :
        requests[r].pc # "idle"
        => /\ requests[r].header.scheme = "Bearer "
           /\ requests[r].header # NoHeader
           /\ requests[r].path_user = requests[r].header.sub

\* a request of the hosted page and a request of chatApi reach the server
C20_Witness ==
    \E r \in Reqs :
        /\ requests[r].pc = "handler"
        /\ requests[r].endpoint = "chat"
        /\ ui.sender = "hosted"
        /\ ui.answered = 1

\* C21: every request sent through apiClient while an authToken is stored carries
\* Authorization: Bearer <that token>, and every response with status 401 sends the
\* browser to /login while the call itself still rejects with the error.
C21_ApiClientAttachesTokenAndRedirects ==
    \A k \in Calls :
        LET call == ui.calls[k]
        IN  /\ (call.pc # "idle" /\ call.token # NoToken)
               => /\ call.header.scheme = "Bearer "
                  /\ call.header = Bearer(call.token)
            /\ (call.pc = "settled" /\ call.status = 401)
               => /\ ui.location = "/login"
                  /\ call.outcome = "rejected"
            /\ (call.pc = "settled" /\ call.outcome = "resolved") => call.status = 200

C21_Witness ==
    \E k \in Calls :
        /\ ui.calls[k].pc = "settled"
        /\ ui.calls[k].status = 401
        /\ ui.calls[k].token = MockToken
        /\ ui.calls[k].header = Bearer(MockToken)
        /\ ui.location = "/login"
        /\ \E o \in Calls : ui.calls[o].outcome = "resolved" /\ ui.calls[o].token = Jwt("u1")

\* C27: in TasksPage, when two task operations (create, update, delete, toggle)
\* overlap, so that both requests are in flight before either response is handled,
\* and both succeed, the displayed list afterwards shows the effect of both and
\* equals the server's task set.
C27_OverlappingOperationsBothShown ==
    (\A k \in Calls :
        /\ ui.calls[k].pc = "settled"
        /\ ui.calls[k].op \in Ops \ {"fetch"}
        /\ ui.calls[k].outcome = "resolved"
        /\ ui.calls[k].overlapped
        /\ ui.calls[k].insync
        /\ ui.calls[k].token = Jwt("u1"))
    => ui.tasks = TasksOf(tasks, "u1")

\* a create and a delete that overlapped and both succeeded
C27_Witness ==
    /\ \A k \in Calls :
          /\ ui.calls[k].pc = "settled"
          /\ ui.calls[k].outcome = "resolved"
          /\ ui.calls[k].overlapped
          /\ ui.calls[k].insync
    /\ \E k \in Calls : ui.calls[k].op = "create"
    /\ \E k \in Calls : ui.calls[k].op = "delete"
    /\ DOMAIN tasks = {2}

\* C30: in TasksPage, when a create, update, delete or status-toggle request fails,
\* the displayed list is unchanged and an error notification is shown, and for
\* create/update the form stays open with the same editingTask; the list changes
\* only when a successful response is handled.
C30_FailureLeavesListAndForm ==
    [][/\ \A k \in Calls :
             (/\ ui.calls[k].pc = "answered"
              /\ ui.calls[k].status # 200
              /\ ui.calls[k].op \in Ops \ {"fetch"}
              /\ ui'.calls[k].pc = "settled")
             => /\ ui'.tasks = ui.tasks
                /\ ui'.calls[k].notice = "error"
                /\ ui'.calls[k].outcome = "rejected"
                /\ ui.calls[k].op \in {"create", "update"}
                   => /\ ui'.showForm = ui.showForm
                      /\ ui'.editingTask = ui.editingTask
       /\ ui'.tasks # ui.tasks
             => \E k \in Calls : /\ ui.calls[k].pc = "answered"
                                 /\ ui.calls[k].status = 200
                                 /\ ui'.calls[k].outcome = "resolved"]_vars

\* a failed update left the form open on the task being edited
C30_Witness ==
    \E k \in Calls :
        /\ ui.calls[k].pc = "settled"
        /\ ui.calls[k].op = "update"
        /\ ui.calls[k].status = 500
        /\ ui.calls[k].notice = "error"
        /\ ui.showForm
        /\ ui.editingTask = ui.calls[k].arg
        /\ ui.tasks = ui.calls[k].closure
        /\ ui.tasks # EmptyStore

\* C22: callWithFallback tries the real API first and falls back to the mock: the
\* mock call runs exactly when the health check fails or the real call throws, the
\* real call runs at most once and only after a successful health check, and when the
\* real call succeeds its response is returned without invoking the mock.
C22_FallbackOnlyOnFailure ==
    LET call == ui.call
        over == call.pc \in {"returned", "threw", "settled"}
    IN  /\ call.realCalls <= 1
        /\ call.mockCalls <= 1
        /\ call.realCalls = 1 => call.health = 200
        /\ call.pc = "real" => call.health = 200
        /\ over => (call.mockCalls = 1 <=> (call.health # 200 \/ call.realThrew))
        /\ over => (call.realCalls = 1 <=> call.health = 200)
        /\ (over /\ call.realCalls = 1 /\ ~call.realThrew)
           => /\ call.mockCalls = 0
              /\ call.from = "real"
              /\ call.response.token \in {Jwt("u1"), NoToken}
        /\ (over /\ call.from = "mock") => call.mockCalls = 1

\* the real call threw after a good health check and the mock answered instead
C22_Witness ==
    /\ ui.call.pc = "settled"
    /\ ui.call.health = 200
    /\ ui.call.realThrew
    /\ ui.call.realCalls = 1
    /\ ui.call.mockCalls = 1
    /\ ui.call.from = "mock"
    /\ ui.call.stored

\* C23: on the initial load of AuthProvider with a stored authToken that cannot be
\* verified (the payload does not parse, or has no sub), the token is removed from
\* localStorage, user stays null and loading becomes false.
C23_UnverifiableTokenRemoved ==
    [][(/\ ~ui.mounted
        /\ ui'.mounted
        /\ ui.authToken # NoToken
        /\ getCurrentUserId(ui.authToken) = NoUser)
       => /\ ui'.authToken = NoToken
          /\ ui'.user = NoUser
          /\ ~ui'.loading]_vars

\* AuthProvider has loaded with a mock token in localStorage
C23_Witness ==
    /\ ui.mounted
    /\ ui.call.pc = "idle"
    /\ ui.authToken = MockToken
    /\ ui.user = NoUser
    /\ ~ui.loading

\* C25: mockAuthApi.register rejects an email or username already in MOCK_USERS and
\* otherwise adds a user whose id differs from every existing id; after a successful
\* register, login with the same email and password succeeds and returns that user.
C25_RegisterThenLogin ==
    /\ [][(/\ ui.call.pc = "mock"
           /\ ui.call.method = "register"
           /\ ui'.call.mockCalls = ui.call.mockCalls + 1)
          => LET c == ui.call.credentials
                 before == ui.MOCK_USERS
                 after == ui'.MOCK_USERS
                 taken == \E i \in DOMAIN before : \/ before[i].email = c.email
                                                   \/ before[i].username = c.username
             IN  IF taken
                 THEN after = before /\ ui'.call.pc = "threw"
                 ELSE /\ Len(after) = Len(before) + 1
                      /\ SubSeq(after, 1, Len(before)) = before
                      /\ after[Len(after)].email = c.email
                      /\ after[Len(after)].password = c.password
                      /\ \A i \in DOMAIN before : before[i].id # after[Len(after)].id
                      /\ ui'.call.response.user = after[Len(after)].id
                      /\ mockAuthApi_login(after, c).response.ok
                      /\ mockAuthApi_login(after, c).response.user
                           = after[Len(after)].id]_vars
    /\ [](\A i \in DOMAIN ui.MOCK_USERS :
            LET user == ui.MOCK_USERS[i]
                out == mockAuthApi_login(ui.MOCK_USERS, user)
            IN  /\ out.response.ok
                /\ out.response.user = user.id
                /\ \A j \in DOMAIN ui.MOCK_USERS : j # i => ui.MOCK_USERS[j].id # user.id)

\* two users registered with the mock; the second then logged in through it
C25_Witness ==
    /\ Len(ui.MOCK_USERS) = 5
    /\ ui.call.pc = "settled"
    /\ ui.call.method = "login"
    /\ ui.call.from = "mock"
    /\ ui.call.response.user = "5"
    /\ ui.call.credentials.email = ui.MOCK_USERS[5].email

\* C26: for every token stored by a successful login or register, whether issued by
\* the real backend or by the mock fallback, decoding it with parseJwtPayload /
\* getCurrentUserId yields the id of the user who logged in, so that the session is
\* restored on reload and chatApi can build the /api/{user_id}/ path.
C26_StoredTokenDecodesToUser ==
    /\ (ui.call.pc = "settled" /\ ui.call.stored)
       => /\ getCurrentUserId(ui.call.response.token) = ui.call.response.user
          /\ verifyTokenAndSetUser(AuthPage(ui.call.response.token),
                                   ui.call.response.token).user
               = ui.call.response.user
    /\ (ui.mounted /\ ui.user # NoUser /\ ui.authToken # NoToken
          /\ ui.call.pc \in {"idle", "settled"})
       => getCurrentUserId(ui.authToken) = ui.user

\* a login answered by the real backend and one answered by the mock
C26_Witness ==
    /\ ui.call.pc = "settled"
    /\ ui.call.stored
    /\ ui.call.from = "real"
    /\ ui.authToken = Jwt("u1")
    /\ ui.user = "u1"
    /\ Len(ui.MOCK_USERS) = 4

\* C24: every notification added by showNotification is removed from the list 5
\* seconds after it was shown, also when other notifications are shown or hidden in
\* the meantime; none stays displayed longer without a manual close.
C24_NotificationClosesAfterFiveSeconds ==
    \A i \in DOMAIN ui.notifications : ui.notifications[i].shown <= AutoClose

\* a notification shown for five seconds while another was shown after it
C24_Witness ==
    \E i, j \in DOMAIN ui.notifications :
        /\ i < j
        /\ ui.notifications[i].shown = AutoClose
        /\ ui.notifications[j].shown < AutoClose
        /\ ui.notifications[j].shown > 0

\* C28: when the user starts a new chat or selects another conversation while a
\* sendMessage request is in flight, the reply that arrives later is not appended to
\* the displayed messages and does not overwrite conversationId; the displayed
\* messages always belong to the conversation identified by conversationId.
C28_LateReplyStaysOutOfOtherConversation ==
    /\ [](\A k \in DOMAIN ui.messages :
             ui.messages[k].conversation_id # NoConv
                => ui.messages[k].conversation_id = ui.conversationId)
    /\ [][\A i \in DOMAIN ui.sends :
             (/\ ui.sends[i].pc = "answered"
              /\ ui.sends[i].status = 200
              /\ ui.sends[i].switched
              /\ ui'.sends = RemoveAt(ui.sends, i))
                => /\ ui'.messages = ui.messages
                   /\ ui'.conversationId = ui.conversationId]_vars

\* the reply of a request has been handled after the user went to another conversation
C28_Witness ==
    /\ ui.sends = <<>>
    /\ \E k \in DOMAIN ui.messages :
          /\ ui.messages[k].role = "assistant"
          /\ ui.messages[k].conversation_id # NoConv
          /\ ui.messages[k].conversation_id # ui.conversationId

\* C29: ChatKitPage has at most one chat request in flight and never sends an empty or
\* whitespace-only message: sendMessage sends nothing while isLoading is true or the
\* trimmed input is empty, and isLoading is false after every request, answered or
\* failed.
C29_OneNonEmptyRequestAtATime ==
    /\ [](/\ Len(ui.sends) <= 1
          /\ \A i \in DOMAIN ui.sends : trim(ui.sends[i].message) # <<>>)
    /\ [][Len(ui'.sends) > Len(ui.sends)
             => ~ui.isLoading /\ trim(ui.input) # <<>>]_vars
    /\ [][Len(ui'.sends) < Len(ui.sends) => ~ui'.isLoading]_vars

\* a request is in flight while the input holds text again: the guard is what keeps
\* sendMessage from sending
C29_Witness ==
    /\ Len(ui.sends) = 1
    /\ ui.isLoading
    /\ trim(ui.input) # <<>>
    /\ ui.location = "/chat"
    /\ turns < MaxTurns

====
